---- MODULE Spec2Model ----
(***************************************************************************)
(* Model of the linkclaw repository.                                       *)
(*                                                                         *)
(*  - the update orchestrator of the App component (App.tsx, kept in       *)
(*    src/unnamed/part_004): checkUpdate, handleUpdate, the update banner  *)
(*    and its two buttons, the timers;                                     *)
(*  - the bootstrap tool lnode.js (src/unnamed/part_005): main,            *)
(*    installLatestNode, findLocalInstaller, configureNpmMirror,           *)
(*    checkAndInstallBuildTools;                                           *)
(*  - the Chat component (src/unnamed/part_003): handleSend and the        *)
(*    transcript;                                                          *)
(*  - the useService hook (src/openclaw-manager/src/hooks/useService.ts)   *)
(*    with the serviceStatus slot of the store (stores/appStore.ts);       *)
(*  - the script src/scripts/setup-github-token.sh.                        *)
(*                                                                         *)
(* An optional value (T | null) is the empty sequence Null or the          *)
(* one-element sequence Some(v).                                           *)
(***************************************************************************)
EXTENDS Naturals, Integers, Sequences, FiniteSets, TLC

VARIABLES
    \* ---- App component (update orchestrator) ----
    isTauri,            \* isTauri(): is the host bridge present
    isReady,            \* useState<boolean | null>
    envStatus,          \* useState<EnvironmentStatus | null>
    updateInfo,         \* useState<UpdateInfo | null>
    showUpdateBanner,   \* useState(false)
    updating,           \* useState(false)
    updateResult,       \* useState<UpdateResult | null>
    checkTimer,         \* the 2000 ms timer of the delayed update check
    checkPc,            \* position of the checkUpdate call
    mountEnvPc,         \* position of the checkEnvironment call made on mount
    att,                \* the calls of handleUpdate, by attempt number
    timers,             \* attempts whose 3000 ms close timer is pending
    calls,              \* number of host commands issued so far, by command
    clicks,             \* number of accepted clicks on the update button
    appLog,             \* set of appLogger lines written so far
    lastEvent,          \* the handler or continuation that ran last
    \* ---- lnode.js (bootstrap run) ----
    platform,           \* os.platform()
    version,            \* process.version
    files,              \* the content of __dirname, in directory order
    registry,           \* the npm registry setting
    bpc,                \* position of main()
    localInstaller,     \* const localInstaller of installLatestNode
    trace,              \* external commands run and logger lines, in order
    exitCode,           \* process exit status, Null while running
    \* ---- Chat component ----
    input,              \* useState(''), a sequence of characters
    messages,           \* useState<Message[]>, the transcript
    loading,            \* useState(false)
    outstanding,        \* send_agent_message calls awaiting their answer
    sends,              \* number of send_agent_message calls issued so far
    chatEvent,          \* the chat handler or continuation that ran last
    \* ---- useService hook ----
    serviceStatus,      \* useAppStore: serviceStatus
    hookPc,             \* "mounted" or "unmounted"
    intervalSet,        \* is the setInterval of the effect active
    fetches,            \* the calls of fetchStatus, in the order they began
    ops,                \* the calls of start, stop and restart, in order
    ticks,              \* number of interval ticks so far
    svcEvent,           \* the hook callback or continuation that ran last
    \* ---- setup-github-token.sh ----
    argv,               \* the arguments the script was started with
    rest,               \* "$@" of the parsing loop
    TOKEN,              \* $TOKEN
    USER_LEVEL,         \* $USER_LEVEL
    VERIFY,             \* $VERIFY
    envToken,           \* $GITHUB_TOKEN of the environment ("" when unset)
    shell,              \* which of $ZSH_VERSION, $BASH_VERSION is set
    config,             \* the lines of the shell configuration file
    fileOps,            \* the changes made to that file, in order
    requests,           \* the tokens sent to api.github.com, in order
    tpc,                \* position of the script
    exitStatus          \* exit status of the script, Null while running

appVars == <<isTauri, isReady, envStatus, updateInfo, showUpdateBanner,
             updating, updateResult, checkTimer, checkPc, mountEnvPc, att,
             timers, calls, clicks, appLog, lastEvent>>

bootVars == <<platform, version, files, registry, bpc, localInstaller,
              trace, exitCode>>

chatVars == <<input, messages, loading, outstanding, sends, chatEvent>>

svcVars == <<serviceStatus, hookPc, intervalSet, fetches, ops, ticks,
             svcEvent>>

tokenVars == <<argv, rest, TOKEN, USER_LEVEL, VERIFY, envToken, shell, config,
               fileOps, requests, tpc, exitStatus>>

vars == <<appVars, bootVars, chatVars, svcVars, tokenVars>>

Null == <<>>
Some(v) == <<v>>

\* ------------------------------------------------------------------------
\* Bounds
\* ------------------------------------------------------------------------
MaxAttempts == 3
MaxFiles == 2
MaxMirrorCalls == 4
MaxSends == 2
MaxTicks == 1
MaxOps == 1
MaxArgs == 2

Attempts == 1..MaxAttempts

\* ------------------------------------------------------------------------
\* Values exchanged with the host process
\* ------------------------------------------------------------------------
Absent == "undefined"

\* what a rejected invoke() carries: a plain string or an Error object
RejectValues ==
    { [kind |-> "string", text |-> "permission denied"],
      [kind |-> "Error",  text |-> "permission denied"] }

\* String(e) of JavaScript
StringOf(e) == IF e.kind = "Error" THEN "Error: " \o e.text ELSE e.text

UpdateInfos ==
    [update_available : BOOLEAN, error : {Absent, "network"}]

UpdateResults ==
    { [success |-> TRUE,  message |-> "updated", error |-> Absent],
      [success |-> FALSE, message |-> "failed",  error |-> "npm failed"],
      [success |-> FALSE, message |-> "failed",  error |-> Absent] }

\* what update_openclaw resolves with: a result that reports a failure
\* carries an error string
UpdateOpenclawResults == {r \in UpdateResults : ~r.success => r.error # Absent}

EnvironmentStatuses == { [ready |-> TRUE], [ready |-> FALSE] }

NoAttempt ==
    [pc |-> "unused", backupOk |-> FALSE, backupErr |-> Null,
     applyIssued |-> FALSE, outcome |-> "none", epoch |-> 0]

InFlight(a) == att[a].pc \in {"backup", "apply", "env"}

\* the condition under which the update dialog is rendered
BannerVisible ==
    /\ showUpdateBanner
    /\ updateInfo # Null
    /\ updateInfo[1].update_available

Bump(c) == [calls EXCEPT ![c] = @ + 1]

\* ------------------------------------------------------------------------
\* App component: state after the first render and its mount effects
\* ------------------------------------------------------------------------
\* The mount effects have run: checkEnvironment() was called and, when the
\* host bridge is present, the delayed update check was scheduled.
InitApp ==
    /\ isTauri \in BOOLEAN
    /\ isReady = IF isTauri THEN Null ELSE Some(TRUE)
    /\ envStatus = Null
    /\ updateInfo = Null
    /\ showUpdateBanner = FALSE
    /\ updating = FALSE
    /\ updateResult = Null
    /\ checkTimer = IF isTauri THEN "pending" ELSE "none"
    /\ checkPc = "idle"
    /\ mountEnvPc = IF isTauri THEN "awaiting" ELSE "done"
    /\ att = [a \in Attempts |-> NoAttempt]
    /\ timers = {}
    /\ calls = [check |-> 0, backup |-> 0, apply |-> 0,
                env |-> IF isTauri THEN 1 ELSE 0]
    /\ clicks = 0
    /\ appLog = IF isTauri THEN {"env: start"} ELSE {"env: skipped"}
    /\ lastEvent = "mount"

\* ------------------------------------------------------------------------
\* checkEnvironment, the call made on mount
\* ------------------------------------------------------------------------
MountEnvResolves(status) ==
    /\ mountEnvPc = "awaiting"
    /\ mountEnvPc' = "done"
    /\ envStatus' = Some(status)
    /\ isReady' = Some(TRUE)
    /\ appLog' = appLog \cup {"env: done"}
    /\ lastEvent' = "mountEnvResolves"
    /\ UNCHANGED <<isTauri, updateInfo, showUpdateBanner, updating,
                   updateResult, checkTimer, checkPc, att, timers, calls,
                   clicks>>
    /\ UNCHANGED <<bootVars, chatVars, svcVars, tokenVars>>

\* variant of MountEnvRejects: the catch block does not call setIsReady
MountEnvRejects_Stuck ==
    /\ mountEnvPc = "awaiting"
    /\ mountEnvPc' = "done"
    /\ appLog' = appLog \cup {"env: failed"}
    /\ lastEvent' = "mountEnvRejects"
    /\ UNCHANGED <<isTauri, isReady, envStatus, updateInfo, showUpdateBanner,
                   updating, updateResult, checkTimer, checkPc, att, timers,
                   calls, clicks>>
    /\ UNCHANGED <<bootVars, chatVars, svcVars, tokenVars>>

MountEnvRejects ==
    /\ mountEnvPc = "awaiting"
    /\ mountEnvPc' = "done"
    /\ isReady' = Some(TRUE)
    /\ appLog' = appLog \cup {"env: failed"}
    /\ lastEvent' = "mountEnvRejects"
    /\ UNCHANGED <<isTauri, envStatus, updateInfo, showUpdateBanner,
                   updating, updateResult, checkTimer, checkPc, att, timers,
                   calls, clicks>>
    /\ UNCHANGED <<bootVars, chatVars, svcVars, tokenVars>>

\* ------------------------------------------------------------------------
\* checkUpdate
\* ------------------------------------------------------------------------
\* the 2000 ms timer fires and calls checkUpdate(), which issues
\* check_openclaw_update (after its own isTauri() test)
CheckTimerFires ==
    /\ checkTimer = "pending"
    /\ checkTimer' = "fired"
    /\ IF isTauri
       THEN /\ checkPc' = "awaiting"
            /\ calls' = Bump("check")
            /\ appLog' = appLog \cup {"check: start"}
       ELSE /\ checkPc' = "done"
            /\ UNCHANGED <<calls, appLog>>
    /\ lastEvent' = "checkTimerFires"
    /\ UNCHANGED <<isTauri, isReady, envStatus, updateInfo,
                   showUpdateBanner, updating, updateResult, mountEnvPc,
                   att, timers, clicks>>
    /\ UNCHANGED <<bootVars, chatVars, svcVars, tokenVars>>

\* variant of CheckResolves: an available update is applied at once
CheckResolves_AutoApply(info) ==
    /\ checkPc = "awaiting"
    /\ checkPc' = "done"
    /\ updateInfo' = Some(info)
    /\ showUpdateBanner' = IF info.update_available THEN TRUE
                                                      ELSE showUpdateBanner
    /\ IF info.update_available
       THEN /\ updating' = TRUE
            /\ updateResult' = Null
            /\ calls' = Bump("backup")
            /\ att' = [att EXCEPT ![1] = [NoAttempt EXCEPT
                                             !.pc = "backup",
                                             !.epoch = calls.check]]
            /\ appLog' = appLog \cup {"check: result", "backup: start"}
       ELSE /\ appLog' = appLog \cup {"check: result"}
            /\ UNCHANGED <<updating, updateResult, calls, att>>
    /\ lastEvent' = "checkResolves"
    /\ UNCHANGED <<isTauri, isReady, envStatus, checkTimer, mountEnvPc,
                   timers, clicks>>
    /\ UNCHANGED <<bootVars, chatVars, svcVars, tokenVars>>

CheckResolves(info) ==
    /\ checkPc = "awaiting"
    /\ checkPc' = "done"
    /\ updateInfo' = Some(info)
    /\ showUpdateBanner' = IF info.update_available THEN TRUE
                                                      ELSE showUpdateBanner
    /\ appLog' = appLog \cup {"check: result"}
    /\ lastEvent' = "checkResolves"
    /\ UNCHANGED <<isTauri, isReady, envStatus, updating, updateResult,
                   checkTimer, mountEnvPc, att, timers, calls, clicks>>
    /\ UNCHANGED <<bootVars, chatVars, svcVars, tokenVars>>

\* variant of CheckRejects: the catch block issues the check again (the
\* cap on calls.check only keeps this variant finite)
CheckRejects_Retry ==
    /\ checkPc = "awaiting"
    /\ IF calls.check < 3
       THEN /\ checkPc' = "awaiting"
            /\ calls' = Bump("check")
       ELSE /\ checkPc' = "failed"
            /\ UNCHANGED calls
    /\ appLog' = appLog \cup {"check: failed"}
    /\ lastEvent' = "checkRejects"
    /\ UNCHANGED <<isTauri, isReady, envStatus, updateInfo,
                   showUpdateBanner, updating, updateResult, checkTimer,
                   mountEnvPc, att, timers, clicks>>
    /\ UNCHANGED <<bootVars, chatVars, svcVars, tokenVars>>

CheckRejects ==
    /\ checkPc = "awaiting"
    /\ checkPc' = "failed"
    /\ appLog' = appLog \cup {"check: failed"}
    /\ lastEvent' = "checkRejects"
    /\ UNCHANGED <<isTauri, isReady, envStatus, updateInfo,
                   showUpdateBanner, updating, updateResult, checkTimer,
                   mountEnvPc, att, timers, calls, clicks>>
    /\ UNCHANGED <<bootVars, chatVars, svcVars, tokenVars>>

\* ------------------------------------------------------------------------
\* The two buttons of the update dialog
\* ------------------------------------------------------------------------
FirstUnused == CHOOSE a \in Attempts :
                   /\ att[a].pc = "unused"
                   /\ \A b \in Attempts : b < a => att[b].pc # "unused"

\* handleUpdate up to its first await: setUpdating(true),
\* setUpdateResult(null), invoke('backup_user_config')
HandleUpdateStart(a) ==
    /\ updating' = TRUE
    /\ updateResult' = Null
    /\ calls' = Bump("backup")
    /\ att' = [att EXCEPT ![a] = [NoAttempt EXCEPT !.pc = "backup",
                                                   !.epoch = calls.check]]
    /\ appLog' = appLog \cup {"backup: start"}

\* variant of UpdateButtonEnabled: the button lacks disabled={updating}
UpdateButtonEnabled_NoDisable == BannerVisible

\* is the update button clickable: rendered and not disabled
UpdateButtonEnabled == BannerVisible /\ ~updating

\* onClick={handleUpdate} of the enabled button
ClickUpdate ==
    /\ UpdateButtonEnabled
    /\ \E a \in Attempts : att[a].pc = "unused"
    /\ HandleUpdateStart(FirstUnused)
    /\ clicks' = clicks + 1
    /\ lastEvent' = "clickUpdate"
    /\ UNCHANGED <<isTauri, isReady, envStatus, updateInfo,
                   showUpdateBanner, checkTimer, checkPc, mountEnvPc,
                   timers>>
    /\ UNCHANGED <<bootVars, chatVars, svcVars, tokenVars>>

\* a click on the update button while it is rendered with disabled={updating}
ClickUpdateDisabled ==
    /\ BannerVisible
    /\ ~UpdateButtonEnabled
    /\ lastEvent # "clickUpdateDisabled"
    /\ lastEvent' = "clickUpdateDisabled"
    /\ UNCHANGED <<isTauri, isReady, envStatus, updateInfo,
                   showUpdateBanner, updating, updateResult, checkTimer,
                   checkPc, mountEnvPc, att, timers, calls, clicks, appLog>>
    /\ UNCHANGED <<bootVars, chatVars, svcVars, tokenVars>>

\* onClick={() => setShowUpdateBanner(false)}, disabled={updating}
ClickDecline ==
    /\ BannerVisible
    /\ ~updating
    /\ showUpdateBanner' = FALSE
    /\ lastEvent' = "clickDecline"
    /\ UNCHANGED <<isTauri, isReady, envStatus, updateInfo, updating,
                   updateResult, checkTimer, checkPc, mountEnvPc, att,
                   timers, calls, clicks, appLog>>
    /\ UNCHANGED <<bootVars, chatVars, svcVars, tokenVars>>

\* ------------------------------------------------------------------------
\* handleUpdate, the continuations after each await
\* ------------------------------------------------------------------------
\* variant of CaughtResult: the error text is dropped
CaughtResult_NoError(e) ==
    [success |-> FALSE, message |-> "update error", error |-> Absent]

CaughtResult(e) ==
    [success |-> FALSE, message |-> "update error", error |-> StringOf(e)]

\* backup_user_config resolved: invoke('update_openclaw')
BackupResolves(a) ==
    /\ att[a].pc = "backup"
    /\ att' = [att EXCEPT ![a].pc = "apply", ![a].backupOk = TRUE,
                          ![a].applyIssued = TRUE]
    /\ calls' = Bump("apply")
    /\ appLog' = appLog \cup {"backup: ok", "apply: start"}
    /\ lastEvent' = "backupResolves"
    /\ UNCHANGED <<isTauri, isReady, envStatus, updateInfo,
                   showUpdateBanner, updating, updateResult, checkTimer,
                   checkPc, mountEnvPc, timers, clicks>>
    /\ UNCHANGED <<bootVars, chatVars, svcVars, tokenVars>>

\* variant of BackupRejects: the backup error is swallowed and
\* update_openclaw is invoked all the same
BackupRejects_Swallowed(a, e) ==
    /\ att[a].pc = "backup"
    /\ att' = [att EXCEPT ![a].pc = "apply", ![a].backupErr = Some(e),
                          ![a].applyIssued = TRUE]
    /\ calls' = Bump("apply")
    /\ appLog' = appLog \cup {"apply: start"}
    /\ lastEvent' = "backupRejects"
    /\ UNCHANGED <<isTauri, isReady, envStatus, updateInfo,
                   showUpdateBanner, updating, updateResult, checkTimer,
                   checkPc, mountEnvPc, timers, clicks>>
    /\ UNCHANGED <<bootVars, chatVars, svcVars, tokenVars>>

\* backup_user_config rejected: catch, then finally
BackupRejects(a, e) ==
    /\ att[a].pc = "backup"
    /\ att' = [att EXCEPT ![a].pc = "ended", ![a].backupErr = Some(e),
                          ![a].outcome = "backupFailed"]
    /\ updateResult' = Some(CaughtResult(e))
    /\ updating' = FALSE
    /\ lastEvent' = "backupRejects"
    /\ UNCHANGED <<isTauri, isReady, envStatus, updateInfo,
                   showUpdateBanner, checkTimer, checkPc, mountEnvPc,
                   timers, calls, clicks, appLog>>
    /\ UNCHANGED <<bootVars, chatVars, svcVars, tokenVars>>

\* update_openclaw resolved with r: setUpdateResult(r); on success
\* checkEnvironment() is awaited, otherwise finally runs at once
ApplyResolves(a, r) ==
    /\ att[a].pc = "apply"
    /\ updateResult' = Some(r)
    /\ IF r.success
       THEN IF isTauri
            THEN /\ att' = [att EXCEPT ![a].pc = "env"]
                 /\ calls' = Bump("env")
                 /\ appLog' = appLog \cup {"env: start"}
                 /\ UNCHANGED <<isReady, timers, updating>>
            ELSE /\ att' = [att EXCEPT ![a].pc = "ended",
                                       ![a].outcome = "success"]
                 /\ isReady' = Some(TRUE)
                 /\ timers' = timers \cup {a}
                 /\ updating' = FALSE
                 /\ appLog' = appLog \cup {"env: skipped"}
                 /\ UNCHANGED calls
       ELSE /\ att' = [att EXCEPT ![a].pc = "ended",
                                  ![a].outcome = "applyFalse"]
            /\ updating' = FALSE
            /\ UNCHANGED <<isReady, timers, calls, appLog>>
    /\ lastEvent' = "applyResolves"
    /\ UNCHANGED <<isTauri, envStatus, updateInfo, showUpdateBanner,
                   checkTimer, checkPc, mountEnvPc, clicks>>
    /\ UNCHANGED <<bootVars, chatVars, svcVars, tokenVars>>

\* variant of ApplyRejects: the catch block does not call setUpdateResult
ApplyRejects_Silent(a, e) ==
    /\ att[a].pc = "apply"
    /\ att' = [att EXCEPT ![a].pc = "ended", ![a].outcome = "applyThrew"]
    /\ updating' = FALSE
    /\ lastEvent' = "applyRejects"
    /\ UNCHANGED <<isTauri, isReady, envStatus, updateInfo,
                   showUpdateBanner, updateResult, checkTimer, checkPc,
                   mountEnvPc, timers, calls, clicks, appLog>>
    /\ UNCHANGED <<bootVars, chatVars, svcVars, tokenVars>>

\* update_openclaw rejected: catch, then finally
ApplyRejects(a, e) ==
    /\ att[a].pc = "apply"
    /\ att' = [att EXCEPT ![a].pc = "ended", ![a].outcome = "applyThrew"]
    /\ updateResult' = Some(CaughtResult(e))
    /\ updating' = FALSE
    /\ lastEvent' = "applyRejects"
    /\ UNCHANGED <<isTauri, isReady, envStatus, updateInfo,
                   showUpdateBanner, checkTimer, checkPc, mountEnvPc,
                   timers, calls, clicks, appLog>>
    /\ UNCHANGED <<bootVars, chatVars, svcVars, tokenVars>>

\* the rest of handleUpdate once the awaited checkEnvironment() returned:
\* setTimeout(close, 3000), then finally setUpdating(false)
AfterCheckEnvironment(a) ==
    /\ att' = [att EXCEPT ![a].pc = "ended", ![a].outcome = "success"]
    /\ timers' = timers \cup {a}
    /\ updating' = FALSE

\* check_environment of the awaited checkEnvironment() resolved
EnvResolves(a, status) ==
    /\ att[a].pc = "env"
    /\ envStatus' = Some(status)
    /\ isReady' = Some(TRUE)
    /\ appLog' = appLog \cup {"env: done"}
    /\ AfterCheckEnvironment(a)
    /\ lastEvent' = "envResolves"
    /\ UNCHANGED <<isTauri, updateInfo, showUpdateBanner, updateResult,
                   checkTimer, checkPc, mountEnvPc, calls, clicks>>
    /\ UNCHANGED <<bootVars, chatVars, svcVars, tokenVars>>

\* variant of EnvRejects: checkEnvironment lets the rejection through, so
\* handleUpdate's catch runs and no close timer is scheduled
EnvRejects_Uncaught(a) ==
    /\ att[a].pc = "env"
    /\ att' = [att EXCEPT ![a].pc = "ended", ![a].outcome = "applyThrew"]
    /\ updateResult' = Some(CaughtResult([kind |-> "string",
                                          text |-> "env check failed"]))
    /\ updating' = FALSE
    /\ lastEvent' = "envRejects"
    /\ UNCHANGED <<isTauri, isReady, envStatus, updateInfo,
                   showUpdateBanner, checkTimer, checkPc, mountEnvPc,
                   timers, calls, clicks, appLog>>
    /\ UNCHANGED <<bootVars, chatVars, svcVars, tokenVars>>

\* check_environment rejected: caught inside checkEnvironment
EnvRejects(a) ==
    /\ att[a].pc = "env"
    /\ isReady' = Some(TRUE)
    /\ appLog' = appLog \cup {"env: failed"}
    /\ AfterCheckEnvironment(a)
    /\ lastEvent' = "envRejects"
    /\ UNCHANGED <<isTauri, envStatus, updateInfo, showUpdateBanner,
                   updateResult, checkTimer, checkPc, mountEnvPc, calls,
                   clicks>>
    /\ UNCHANGED <<bootVars, chatVars, svcVars, tokenVars>>

\* the 3000 ms timer of a successful attempt fires
CloseTimerFires(a) ==
    /\ a \in timers
    /\ timers' = timers \ {a}
    /\ showUpdateBanner' = FALSE
    /\ updateResult' = Null
    /\ lastEvent' = "closeTimerFires"
    /\ UNCHANGED <<isTauri, isReady, envStatus, updateInfo, updating,
                   checkTimer, checkPc, mountEnvPc, att, calls, clicks,
                   appLog>>
    /\ UNCHANGED <<bootVars, chatVars, svcVars, tokenVars>>

NextApp ==
    \/ \E s \in EnvironmentStatuses : MountEnvResolves(s)
    \/ MountEnvRejects
    \/ CheckTimerFires
    \/ \E info \in UpdateInfos : CheckResolves(info)
    \/ CheckRejects
    \/ ClickUpdate
    \/ ClickUpdateDisabled
    \/ ClickDecline
    \/ \E a \in Attempts : BackupResolves(a)
    \/ \E a \in Attempts, e \in RejectValues : BackupRejects(a, e)
    \/ \E a \in Attempts, r \in UpdateOpenclawResults : ApplyResolves(a, r)
    \/ \E a \in Attempts, e \in RejectValues : ApplyRejects(a, e)
    \/ \E a \in Attempts, s \in EnvironmentStatuses : EnvResolves(a, s)
    \/ \E a \in Attempts : EnvRejects(a)
    \/ \E a \in Attempts : CloseTimerFires(a)

\* ------------------------------------------------------------------------
\* lnode.js: values
\* ------------------------------------------------------------------------
Platforms == {"win32", "darwin", "linux"}

minNodeVersion == 22
npmRegistry == "https://registry.npmmirror.com"

Registries == {npmRegistry, "https://registry.npmjs.org/"}

\* the lines configureNpmMirror writes when it starts
MirrorStart == [kind |-> "info", what |-> "configuring mirror", ok |-> TRUE]

\* process.version: "v<major>.<minor>.<patch>", or a string whose major
\* part is not a number (numeric = FALSE)
Versions ==
    [numeric : {TRUE}, major : {21, 22, 23}, minor : {0, 1}, patch : {0, 1}]
    \cup {[numeric |-> FALSE, major |-> 0, minor |-> 0, patch |-> 0]}

\* parseInt(currentVersion.substring(1).split('.')[0], 10); Null is NaN
ParseMajor(v) == IF v.numeric THEN Some(v.major) ELSE Null

\* variant of BelowMinimum: the comparison is <= instead of <
BelowMinimum_Inclusive(v) ==
    LET m == ParseMajor(v) IN m # Null /\ m[1] <= minNodeVersion

\* majorVersion < CONFIG.minNodeVersion; a comparison with NaN is false
BelowMinimum(v) ==
    LET m == ParseMajor(v) IN m # Null /\ m[1] < minNodeVersion

\* a file name: what it starts with, whether it contains "x64", its suffix
FileNames ==
    { [name |-> "node-v22.1.0-x64.msi", stem |-> "node-v", x64 |-> TRUE,
       ext |-> ".msi"],
      [name |-> "node-v22.1.0-x86.msi", stem |-> "node-v", x64 |-> FALSE,
       ext |-> ".msi"],
      [name |-> "nodejs-setup.msi", stem |-> "node", x64 |-> FALSE,
       ext |-> ".msi"],
      [name |-> "node-v22.1.0.pkg", stem |-> "node-v", x64 |-> FALSE,
       ext |-> ".pkg"],
      [name |-> "lnode.js", stem |-> "lnode", x64 |-> FALSE,
       ext |-> ".js"] }

\* directory listings: sequences of distinct names, at most MaxFiles long
Listings ==
    { l \in UNION { [1..n -> FileNames] : n \in 0..MaxFiles } :
        \A i, j \in DOMAIN l : i # j => l[i] # l[j] }

StartsWithNodeV(f) == f.stem = "node-v"
StartsWithNode(f) == f.stem \in {"node", "node-v"}

\* Array.prototype.find: the first element of l that is in M, or Null
Find(l, M) ==
    IF \E i \in DOMAIN l : l[i] \in M
    THEN Some(l[CHOOSE i \in DOMAIN l :
                      l[i] \in M /\ \A j \in DOMAIN l : j < i => l[j] \notin M])
    ELSE Null

IsX64Msi(f) == StartsWithNodeV(f) /\ f.ext = ".msi" /\ f.x64
IsMsi(f) == StartsWithNode(f) /\ f.ext = ".msi"
IsPkg(f) == StartsWithNode(f) /\ f.ext = ".pkg"

X64Msis == {f \in FileNames : IsX64Msi(f)}
Msis == {f \in FileNames : IsMsi(f)}
Pkgs == {f \in FileNames : IsPkg(f)}

\* variant of findLocalInstaller: on Windows the first .msi match is returned
\* with no preference for the x64 package
findLocalInstaller_FirstMsi(p, l) ==
    IF p = "win32" THEN Find(l, Msis)
    ELSE IF p = "darwin" THEN Find(l, Pkgs)
    ELSE Null

\* findLocalInstaller(platform), given the listing readdirSync returned
findLocalInstaller(p, l) ==
    IF p = "win32"
    THEN IF Find(l, X64Msis) # Null THEN Find(l, X64Msis)
                                    ELSE Find(l, Msis)
    ELSE IF p = "darwin" THEN Find(l, Pkgs)
    ELSE Null

Cmd(c, ok) == [kind |-> "cmd", what |-> c, ok |-> ok]
Log(level, line) == [kind |-> level, what |-> line, ok |-> TRUE]
\* a call of the fs module (not an external command)
Fs(c, ok) == [kind |-> "fs", what |-> c, ok |-> ok]

Ran(c) == \E i \in DOMAIN trace : trace[i].kind = "cmd" /\ trace[i].what = c
RanOk(c) == \E i \in DOMAIN trace :
                trace[i].kind = "cmd" /\ trace[i].what = c /\ trace[i].ok
Logged(line) == \E i \in DOMAIN trace :
                    trace[i].kind # "cmd" /\ trace[i].what = line
TimesRan(c) == Cardinality({i \in DOMAIN trace :
                               trace[i].kind = "cmd" /\ trace[i].what = c})
TimesLogged(line) == Cardinality({i \in DOMAIN trace :
                               trace[i].kind # "cmd" /\ trace[i].what = line})

\* ------------------------------------------------------------------------
\* lnode.js: the run
\* ------------------------------------------------------------------------
InitBoot ==
    /\ platform \in Platforms
    /\ version \in Versions
    /\ files \in Listings
    /\ registry \in Registries
    /\ bpc = "main"
    /\ localInstaller = Null
    /\ trace = <<>>
    /\ exitCode = Null

\* main, lines 43-59: the version test
MainVersionGate ==
    /\ bpc = "main"
    /\ IF BelowMinimum(version)
       THEN /\ bpc' = "findLocalInstaller"
            /\ trace' = trace \o <<Log("warn", "version too low"),
                                   Log("info", "checking install")>>
       ELSE /\ bpc' = "configureNpmMirror"
            /\ trace' = Append(trace, Log("success", "version ok"))
    /\ UNCHANGED <<platform, version, files, registry, localInstaller,
                   exitCode>>
    /\ UNCHANGED <<appVars, chatVars, svcVars, tokenVars>>

\* main's catch, entered after the entries es were written: log the error,
\* process.exit(1)
TopLevelCatchAfter(es) ==
    /\ bpc' = "exited"
    /\ exitCode' = Some(1)
    /\ trace' = trace \o es \o <<Log("error", "run failed")>>

\* the catch entered from findLocalInstaller's readdirSync
TopLevelCatch == TopLevelCatchAfter(<<Fs("readdirSync", FALSE)>>)

\* variant of InstallFindLocal: a found installer is reported but the
\* chain goes on to the online fallback without running it
InstallFindLocal_SkipLocal(readOk) ==
    /\ bpc = "findLocalInstaller"
    /\ IF readOk
       THEN /\ localInstaller' = findLocalInstaller(platform, files)
            /\ bpc' = "onlineInstall"
            /\ IF localInstaller' # Null
               THEN trace' = trace \o <<Fs("readdirSync", TRUE),
                                        Log("info", "local found")>>
               ELSE trace' = trace \o <<Fs("readdirSync", TRUE),
                                        Log("info", "no local")>>
            /\ UNCHANGED exitCode
       ELSE /\ TopLevelCatch
            /\ UNCHANGED localInstaller
    /\ UNCHANGED <<platform, version, files, registry>>
    /\ UNCHANGED <<appVars, chatVars, svcVars, tokenVars>>

\* installLatestNode, lines 161-165 and 186-188: the lookup.
\* readdirSync either returns the listing or throws.
InstallFindLocal(readOk) ==
    /\ bpc = "findLocalInstaller"
    /\ IF readOk
       THEN /\ localInstaller' = findLocalInstaller(platform, files)
            /\ IF localInstaller' # Null
               THEN /\ bpc' = "localInstall"
                    /\ trace' = trace \o <<Fs("readdirSync", TRUE),
                                           Log("info", "local found")>>
               ELSE /\ bpc' = "onlineInstall"
                    /\ trace' = trace \o <<Fs("readdirSync", TRUE),
                                           Log("info", "no local")>>
            /\ UNCHANGED exitCode
       ELSE /\ TopLevelCatch
            /\ UNCHANGED localInstaller
    /\ UNCHANGED <<platform, version, files, registry>>
    /\ UNCHANGED <<appVars, chatVars, svcVars, tokenVars>>

LocalCommand == IF platform = "win32" THEN "msiexec" ELSE "installer"

\* variant of InstallLocal: the return after a successful install is missing
InstallLocal_NoReturn(ok) ==
    /\ bpc = "localInstall"
    /\ bpc' = "onlineInstall"
    /\ IF ok
       THEN trace' = trace \o <<Cmd(LocalCommand, TRUE),
                                Log("success", "local installed")>>
       ELSE trace' = trace \o <<Cmd(LocalCommand, FALSE),
                                Log("error", "local failed")>>
    /\ UNCHANGED <<platform, version, files, registry, localInstaller,
                   exitCode>>
    /\ UNCHANGED <<appVars, chatVars, svcVars, tokenVars>>

\* variant of InstallLocal: the installer call is not inside a try block
InstallLocal_Fatal(ok) ==
    /\ bpc = "localInstall"
    /\ IF ok
       THEN /\ bpc' = "configureNpmMirror"
            /\ trace' = trace \o <<Cmd(LocalCommand, TRUE),
                                   Log("success", "local installed")>>
            /\ UNCHANGED exitCode
       ELSE TopLevelCatchAfter(<<Cmd(LocalCommand, FALSE)>>)
    /\ UNCHANGED <<platform, version, files, registry, localInstaller>>
    /\ UNCHANGED <<appVars, chatVars, svcVars, tokenVars>>

\* installLatestNode, lines 167-185: the local installer is run
InstallLocal(ok) ==
    /\ bpc = "localInstall"
    /\ IF ok
       THEN /\ bpc' = "configureNpmMirror"
            /\ trace' = trace \o <<Cmd(LocalCommand, TRUE),
                                   Log("success", "local installed")>>
       ELSE /\ bpc' = "onlineInstall"
            /\ trace' = trace \o <<Cmd(LocalCommand, FALSE),
                                   Log("error", "local failed")>>
    /\ UNCHANGED <<platform, version, files, registry, localInstaller,
                   exitCode>>
    /\ UNCHANGED <<appVars, chatVars, svcVars, tokenVars>>

PackageManager == IF platform = "win32" THEN "winget" ELSE "brew"
ManualLine == IF platform = "win32" THEN "manual: https://nodejs.org/"
              ELSE IF platform = "darwin" THEN "manual: check Homebrew"
              ELSE "manual: use nvm"

\* installLatestNode, lines 191-211: the online fallback
InstallOnline(ok) ==
    /\ bpc = "onlineInstall"
    /\ bpc' = "configureNpmMirror"
    /\ IF platform \in {"win32", "darwin"}
       THEN IF ok
            THEN trace' = trace \o <<Log("info", "suggest package manager"),
                                     Cmd(PackageManager, TRUE),
                                     Log("success", "package manager ran")>>
            ELSE trace' = trace \o <<Log("info", "suggest package manager"),
                                     Cmd(PackageManager, FALSE),
                                     Log("error", ManualLine)>>
       ELSE /\ ok
            /\ trace' = Append(trace, Log("info", ManualLine))
    /\ UNCHANGED <<platform, version, files, registry, localInstaller,
                   exitCode>>
    /\ UNCHANGED <<appVars, chatVars, svcVars, tokenVars>>

\* variant of AfterMirror: the install chain is run after the mirror stage
AfterMirror_BackToChain == "findLocalInstaller"

\* main, lines 64-67: what follows configureNpmMirror
AfterMirror == IF platform = "win32" THEN "checkAndInstallBuildTools"
                                     ELSE "finish"

\* variant of configureNpmMirror: the setting is written whatever was read
configureNpmMirror_AlwaysWrite(readOk, writeOk) ==
    /\ IF ~readOk
       THEN /\ trace' = trace \o <<Log("info", "configuring mirror"),
                                   Cmd("npm config get", FALSE),
                                   Log("error", "mirror failed")>>
            /\ UNCHANGED registry
       ELSE IF writeOk
       THEN /\ trace' = trace \o <<Log("info", "configuring mirror"),
                                   Cmd("npm config get", TRUE),
                                   Log("info", "setting registry"),
                                   Cmd("npm config set", TRUE),
                                   Log("success", "mirror set")>>
            /\ registry' = npmRegistry
       ELSE /\ trace' = trace \o <<Log("info", "configuring mirror"),
                                   Cmd("npm config get", TRUE),
                                   Log("info", "setting registry"),
                                   Cmd("npm config set", FALSE),
                                   Log("error", "mirror failed")>>
            /\ UNCHANGED registry

\* variant of configureNpmMirror: the test of the value read is inverted
configureNpmMirror_Inverted(readOk, writeOk) ==
    /\ IF ~readOk
       THEN /\ trace' = trace \o <<Log("info", "configuring mirror"),
                                   Cmd("npm config get", FALSE),
                                   Log("error", "mirror failed")>>
            /\ UNCHANGED registry
       ELSE IF registry = npmRegistry
       THEN IF writeOk
            THEN /\ trace' = trace \o <<Log("info", "configuring mirror"),
                                        Cmd("npm config get", TRUE),
                                        Log("info", "setting registry"),
                                        Cmd("npm config set", TRUE),
                                        Log("success", "mirror set")>>
                 /\ registry' = npmRegistry
            ELSE /\ trace' = trace \o <<Log("info", "configuring mirror"),
                                        Cmd("npm config get", TRUE),
                                        Log("info", "setting registry"),
                                        Cmd("npm config set", FALSE),
                                        Log("error", "mirror failed")>>
                 /\ UNCHANGED registry
       ELSE /\ trace' = trace \o <<Log("info", "configuring mirror"),
                                   Cmd("npm config get", TRUE),
                                   Log("info", "mirror already set")>>
            /\ UNCHANGED registry

\* configureNpmMirror: read the setting (may throw), write it when it
\* differs from CONFIG.npmRegistry (may throw); every throw is caught inside
configureNpmMirror(readOk, writeOk) ==
    /\ IF ~readOk
       THEN /\ trace' = trace \o <<Log("info", "configuring mirror"),
                                   Cmd("npm config get", FALSE),
                                   Log("error", "mirror failed")>>
            /\ UNCHANGED registry
       ELSE IF registry # npmRegistry
       THEN IF writeOk
            THEN /\ trace' = trace \o <<Log("info", "configuring mirror"),
                                        Cmd("npm config get", TRUE),
                                        Log("info", "setting registry"),
                                        Cmd("npm config set", TRUE),
                                        Log("success", "mirror set")>>
                 /\ registry' = npmRegistry
            ELSE /\ trace' = trace \o <<Log("info", "configuring mirror"),
                                        Cmd("npm config get", TRUE),
                                        Log("info", "setting registry"),
                                        Cmd("npm config set", FALSE),
                                        Log("error", "mirror failed")>>
                 /\ UNCHANGED registry
       ELSE /\ trace' = trace \o <<Log("info", "configuring mirror"),
                                   Cmd("npm config get", TRUE),
                                   Log("info", "mirror already set")>>
            /\ UNCHANGED registry

\* variant of MainMirror: configureNpmMirror has no try block, so a failed
\* read or write reaches main's catch
MainMirror_Rethrow(readOk, writeOk) ==
    /\ bpc = "configureNpmMirror"
    /\ IF ~readOk
       THEN /\ TopLevelCatchAfter(<<Log("info", "configuring mirror"),
                                    Cmd("npm config get", FALSE)>>)
            /\ UNCHANGED registry
       ELSE IF registry # npmRegistry /\ ~writeOk
       THEN /\ TopLevelCatchAfter(<<Log("info", "configuring mirror"),
                                    Cmd("npm config get", TRUE),
                                    Log("info", "setting registry"),
                                    Cmd("npm config set", FALSE)>>)
            /\ UNCHANGED registry
       ELSE /\ bpc' = AfterMirror
            /\ configureNpmMirror(readOk, writeOk)
            /\ UNCHANGED exitCode
    /\ UNCHANGED <<platform, version, files, localInstaller>>
    /\ UNCHANGED <<appVars, chatVars, svcVars, tokenVars>>

\* main, line 62: await configureNpmMirror()
MainMirror(readOk, writeOk) ==
    /\ bpc = "configureNpmMirror"
    /\ bpc' = AfterMirror
    /\ configureNpmMirror(readOk, writeOk)
    /\ UNCHANGED <<platform, version, files, localInstaller, exitCode>>
    /\ UNCHANGED <<appVars, chatVars, svcVars, tokenVars>>

\* variant of checkAndInstallBuildTools: the outer try block is missing, so
\* a failed node-gyp install reaches main's catch
checkAndInstallBuildTools_Uncaught(hasPython, gypOk) ==
    /\ bpc = "checkAndInstallBuildTools"
    /\ IF hasPython
       THEN /\ bpc' = "finish"
            /\ trace' = trace \o <<Log("info", "checking build tools"),
                                   Cmd("python --version", TRUE),
                                   Log("info", "python present"),
                                   Log("info", "build tools ok")>>
            /\ UNCHANGED exitCode
       ELSE IF gypOk
       THEN /\ bpc' = "finish"
            /\ trace' = trace \o <<Log("info", "checking build tools"),
                                   Cmd("python --version", FALSE),
                                   Log("warn", "python missing"),
                                   Log("info", "manual: winget install Python"),
                                   Cmd("npm install -g node-gyp", TRUE)>>
            /\ UNCHANGED exitCode
       ELSE TopLevelCatchAfter(
                <<Log("info", "checking build tools"),
                  Cmd("python --version", FALSE),
                  Log("warn", "python missing"),
                  Log("info", "manual: winget install Python"),
                  Cmd("npm install -g node-gyp", FALSE)>>)
    /\ UNCHANGED <<platform, version, files, registry, localInstaller>>
    /\ UNCHANGED <<appVars, chatVars, svcVars, tokenVars>>

\* variant of checkAndInstallBuildTools: node-gyp is installed whether or
\* not python was found
checkAndInstallBuildTools_AlwaysInstall(hasPython, gypOk) ==
    /\ bpc = "checkAndInstallBuildTools"
    /\ bpc' = "finish"
    /\ IF hasPython
       THEN trace' = trace \o <<Log("info", "checking build tools"),
                                Cmd("python --version", TRUE),
                                Log("info", "python present"),
                                Cmd("npm install -g node-gyp", gypOk)>>
       ELSE IF gypOk
       THEN trace' = trace \o <<Log("info", "checking build tools"),
                                Cmd("python --version", FALSE),
                                Log("warn", "python missing"),
                                Log("info", "manual: winget install Python"),
                                Cmd("npm install -g node-gyp", TRUE)>>
       ELSE trace' = trace \o <<Log("info", "checking build tools"),
                                Cmd("python --version", FALSE),
                                Log("warn", "python missing"),
                                Log("info", "manual: winget install Python"),
                                Cmd("npm install -g node-gyp", FALSE),
                                Log("error", "build tools failed")>>
    /\ UNCHANGED <<platform, version, files, registry, localInstaller,
                   exitCode>>
    /\ UNCHANGED <<appVars, chatVars, svcVars, tokenVars>>

\* checkAndInstallBuildTools: python --version, then npm install -g node-gyp
\* when python is missing; every throw is caught inside
checkAndInstallBuildTools(hasPython, gypOk) ==
    /\ bpc = "checkAndInstallBuildTools"
    /\ bpc' = "finish"
    /\ IF hasPython
       THEN trace' = trace \o <<Log("info", "checking build tools"),
                                Cmd("python --version", TRUE),
                                Log("info", "python present"),
                                Log("info", "build tools ok")>>
       ELSE IF gypOk
       THEN trace' = trace \o <<Log("info", "checking build tools"),
                                Cmd("python --version", FALSE),
                                Log("warn", "python missing"),
                                Log("info", "manual: winget install Python"),
                                Cmd("npm install -g node-gyp", TRUE)>>
       ELSE trace' = trace \o <<Log("info", "checking build tools"),
                                Cmd("python --version", FALSE),
                                Log("warn", "python missing"),
                                Log("info", "manual: winget install Python"),
                                Cmd("npm install -g node-gyp", FALSE),
                                Log("error", "build tools failed")>>
    /\ UNCHANGED <<platform, version, files, registry, localInstaller,
                   exitCode>>
    /\ UNCHANGED <<appVars, chatVars, svcVars, tokenVars>>

\* main, line 69, and the normal end of the process
MainFinish ==
    /\ bpc = "finish"
    /\ bpc' = "exited"
    /\ exitCode' = Some(0)
    /\ trace' = Append(trace, Log("success", "run complete"))
    /\ UNCHANGED <<platform, version, files, registry, localInstaller>>
    /\ UNCHANGED <<appVars, chatVars, svcVars, tokenVars>>

NextBoot ==
    \/ MainVersionGate
    \/ \E readOk \in BOOLEAN : InstallFindLocal(readOk)
    \/ \E ok \in BOOLEAN : InstallLocal(ok)
    \/ \E ok \in BOOLEAN : InstallOnline(ok)
    \/ \E readOk, writeOk \in BOOLEAN : MainMirror(readOk, writeOk)
    \/ \E hasPython, gypOk \in BOOLEAN :
           checkAndInstallBuildTools(hasPython, gypOk)
    \/ MainFinish

\* ------------------------------------------------------------------------
\* Chat component
\* ------------------------------------------------------------------------
\* a text is a sequence of characters; the texts the user types: blank
\* ones, and ones with white space before or after a letter
Chars == {" ", "a"}
Inputs == UNION { [1..n -> Chars] : n \in {0, 1, 2} }

DropLeading(s) ==
    IF s = <<>> THEN 1
    ELSE CHOOSE i \in 1..(Len(s) + 1) :
             /\ \A j \in 1..(i - 1) : s[j] = " "
             /\ i <= Len(s) => s[i] # " "
DropTrailing(s) ==
    IF s = <<>> THEN 0
    ELSE CHOOSE i \in 0..Len(s) :
             /\ \A j \in (i + 1)..Len(s) : s[j] = " "
             /\ i >= 1 => s[i] # " "
\* String.prototype.trim
Trim(s) == SubSeq(s, DropLeading(s), DropTrailing(s))

\* what send_agent_message resolves with
Replies == { <<"o", "k">> }
\* `send failed: ${error}` of the catch block
ErrorContent(e) == <<"send failed: ", StringOf(e)>>

Message(role, content) == [role |-> role, content |-> content]
Welcome == Message("assistant", <<"welcome">>)

InitChat ==
    /\ input = <<>>
    /\ messages = <<Welcome>>
    /\ loading = FALSE
    /\ outstanding = 0
    /\ sends = 0
    /\ chatEvent = "mount"

\* onChange of the textarea: setInput(e.target.value)
SetInput(v) ==
    /\ v # input
    /\ input' = v
    /\ chatEvent' = "setInput"
    /\ UNCHANGED <<messages, loading, outstanding, sends>>
    /\ UNCHANGED <<appVars, bootVars, svcVars, tokenVars>>

\* variant of handleSend: the guard does not test loading
handleSend_NoLoadingGuard ==
    /\ IF Trim(input) = <<>>
       THEN /\ chatEvent' = "sendIgnored"
            /\ UNCHANGED <<input, messages, loading, outstanding, sends>>
       ELSE /\ sends < MaxSends
            /\ messages' = Append(messages, Message("user", input))
            /\ input' = <<>>
            /\ loading' = TRUE
            /\ outstanding' = outstanding + 1
            /\ sends' = sends + 1
            /\ chatEvent' = "sendAccepted"
    /\ UNCHANGED <<appVars, bootVars, svcVars, tokenVars>>

\* handleSend up to its await, called by the send button and by the Enter
\* key (handleKeyDown): return when the input is blank or a send is
\* awaiting its reply, otherwise append the user message, clear the input,
\* set loading and invoke send_agent_message
handleSend ==
    /\ IF Trim(input) = <<>> \/ loading
       THEN /\ chatEvent' = "sendIgnored"
            /\ UNCHANGED <<input, messages, loading, outstanding, sends>>
       ELSE /\ sends < MaxSends
            /\ messages' = Append(messages, Message("user", input))
            /\ input' = <<>>
            /\ loading' = TRUE
            /\ outstanding' = outstanding + 1
            /\ sends' = sends + 1
            /\ chatEvent' = "sendAccepted"
    /\ UNCHANGED <<appVars, bootVars, svcVars, tokenVars>>

\* send_agent_message resolved: append the reply, then finally
SendResolves(response) ==
    /\ outstanding > 0
    /\ outstanding' = outstanding - 1
    /\ messages' = Append(messages, Message("assistant", response))
    /\ loading' = FALSE
    /\ chatEvent' = "sendResolves"
    /\ UNCHANGED <<input, sends>>
    /\ UNCHANGED <<appVars, bootVars, svcVars, tokenVars>>

\* variant of SendRejects: the catch block appends no message
SendRejects_NoMessage(e) ==
    /\ outstanding > 0
    /\ outstanding' = outstanding - 1
    /\ loading' = FALSE
    /\ chatEvent' = "sendRejects"
    /\ UNCHANGED <<input, messages, sends>>
    /\ UNCHANGED <<appVars, bootVars, svcVars, tokenVars>>

\* send_agent_message rejected: append the error message, then finally
SendRejects(e) ==
    /\ outstanding > 0
    /\ outstanding' = outstanding - 1
    /\ messages' = Append(messages, Message("assistant", ErrorContent(e)))
    /\ loading' = FALSE
    /\ chatEvent' = "sendRejects"
    /\ UNCHANGED <<input, sends>>
    /\ UNCHANGED <<appVars, bootVars, svcVars, tokenVars>>

NextChat ==
    \/ \E v \in Inputs : SetInput(v)
    \/ handleSend
    \/ \E response \in Replies : SendResolves(response)
    \/ \E e \in RejectValues : SendRejects(e)

\* ------------------------------------------------------------------------
\* useService hook
\* ------------------------------------------------------------------------
ServiceStatuses == { [running |-> TRUE], [running |-> FALSE] }
Operations == {"start", "stop", "restart"}

\* a call of fetchStatus: who made it (origin "mount", "tick" or "op", and
\* for "op" the index of the operation) and its position
Fetch(origin, op) == [origin |-> origin, op |-> op, pc |-> "awaiting"]

\* what ran last: its name, the fetch or operation it belongs to, and the
\* value the host call produced
Event(name, of, value) == [name |-> name, of |-> of, value |-> value]

\* the effect has run: fetchStatus() was called and the interval was set
InitService ==
    /\ serviceStatus = Null
    /\ hookPc = "mounted"
    /\ intervalSet = TRUE
    /\ fetches = <<Fetch("mount", 0)>>
    /\ ops = <<>>
    /\ ticks = 0
    /\ svcEvent = Event("mount", 0, Null)

\* the interval fires: fetchStatus()
IntervalTick ==
    /\ intervalSet
    /\ ticks < MaxTicks
    /\ ticks' = ticks + 1
    /\ fetches' = Append(fetches, Fetch("tick", 0))
    /\ svcEvent' = Event("intervalTick", Len(fetches) + 1, Null)
    /\ UNCHANGED <<serviceStatus, hookPc, intervalSet, ops>>
    /\ UNCHANGED <<appVars, bootVars, chatVars, tokenVars>>

\* variant of Unmount: the cleanup does not clear the interval
Unmount_NoClear ==
    /\ hookPc = "mounted"
    /\ hookPc' = "unmounted"
    /\ svcEvent' = Event("unmount", 0, Null)
    /\ UNCHANGED <<serviceStatus, intervalSet, fetches, ops, ticks>>
    /\ UNCHANGED <<appVars, bootVars, chatVars, tokenVars>>

\* the cleanup of the effect: clearInterval(interval)
Unmount ==
    /\ hookPc = "mounted"
    /\ hookPc' = "unmounted"
    /\ intervalSet' = FALSE
    /\ svcEvent' = Event("unmount", 0, Null)
    /\ UNCHANGED <<serviceStatus, fetches, ops, ticks>>
    /\ UNCHANGED <<appVars, bootVars, chatVars, tokenVars>>

\* the operation, if any, that awaits fetch i resolves to true
OpsAfterFetch(i) ==
    IF fetches[i].origin = "op"
    THEN [ops EXCEPT ![fetches[i].op].pc = "resolved"]
    ELSE ops

\* getServiceStatus resolved: setServiceStatus(status)
FetchResolves(i, st) ==
    /\ i \in DOMAIN fetches
    /\ fetches[i].pc = "awaiting"
    /\ fetches' = [fetches EXCEPT ![i].pc = "done"]
    /\ serviceStatus' = Some(st)
    /\ ops' = OpsAfterFetch(i)
    /\ svcEvent' = Event("fetchResolves", i, Some(st))
    /\ UNCHANGED <<hookPc, intervalSet, ticks>>
    /\ UNCHANGED <<appVars, bootVars, chatVars, tokenVars>>

\* variant of FetchRejects: the catch block resets the stored status
FetchRejects_Reset(i) ==
    /\ i \in DOMAIN fetches
    /\ fetches[i].pc = "awaiting"
    /\ fetches' = [fetches EXCEPT ![i].pc = "failed"]
    /\ serviceStatus' = Null
    /\ ops' = OpsAfterFetch(i)
    /\ svcEvent' = Event("fetchRejects", i, Null)
    /\ UNCHANGED <<hookPc, intervalSet, ticks>>
    /\ UNCHANGED <<appVars, bootVars, chatVars, tokenVars>>

\* getServiceStatus rejected: caught and logged inside fetchStatus
FetchRejects(i) ==
    /\ i \in DOMAIN fetches
    /\ fetches[i].pc = "awaiting"
    /\ fetches' = [fetches EXCEPT ![i].pc = "failed"]
    /\ ops' = OpsAfterFetch(i)
    /\ svcEvent' = Event("fetchRejects", i, Null)
    /\ UNCHANGED <<serviceStatus, hookPc, intervalSet, ticks>>
    /\ UNCHANGED <<appVars, bootVars, chatVars, tokenVars>>

\* start(), stop() or restart() is called: the service call is issued
CallOperation(kind) ==
    /\ hookPc = "mounted"
    /\ Len(ops) < MaxOps
    /\ ops' = Append(ops, [kind |-> kind, pc |-> "calling"])
    /\ svcEvent' = Event("callOperation", Len(ops) + 1, Null)
    /\ UNCHANGED <<serviceStatus, hookPc, intervalSet, fetches, ticks>>
    /\ UNCHANGED <<appVars, bootVars, chatVars, tokenVars>>

\* variant of OperationResolves: fetchStatus() is not awaited
OperationResolves_NoAwait(k) ==
    /\ k \in DOMAIN ops
    /\ ops[k].pc = "calling"
    /\ ops' = [ops EXCEPT ![k].pc = "resolved"]
    /\ fetches' = Append(fetches, Fetch("op", k))
    /\ svcEvent' = Event("operationResolves", k, Null)
    /\ UNCHANGED <<serviceStatus, hookPc, intervalSet, ticks>>
    /\ UNCHANGED <<appVars, bootVars, chatVars, tokenVars>>

\* the service call resolved: await fetchStatus()
OperationResolves(k) ==
    /\ k \in DOMAIN ops
    /\ ops[k].pc = "calling"
    /\ ops' = [ops EXCEPT ![k].pc = "fetching"]
    /\ fetches' = Append(fetches, Fetch("op", k))
    /\ svcEvent' = Event("operationResolves", k, Null)
    /\ UNCHANGED <<serviceStatus, hookPc, intervalSet, ticks>>
    /\ UNCHANGED <<appVars, bootVars, chatVars, tokenVars>>

\* the service call rejected: log, throw error (the operation ends
\* rejected with e)
OperationRejects(k, e) ==
    /\ k \in DOMAIN ops
    /\ ops[k].pc = "calling"
    /\ ops' = [ops EXCEPT ![k].pc = "rejected"]
    /\ svcEvent' = Event("operationRejects", k, Some(e))
    /\ UNCHANGED <<serviceStatus, hookPc, intervalSet, fetches, ticks>>
    /\ UNCHANGED <<appVars, bootVars, chatVars, tokenVars>>

NextService ==
    \/ IntervalTick
    \/ Unmount
    \/ \E i \in 1..(1 + MaxTicks + MaxOps), st \in ServiceStatuses :
           FetchResolves(i, st)
    \/ \E i \in 1..(1 + MaxTicks + MaxOps) : FetchRejects(i)
    \/ \E kind \in Operations : CallOperation(kind)
    \/ \E k \in 1..MaxOps : OperationResolves(k)
    \/ \E k \in 1..MaxOps, e \in RejectValues : OperationRejects(k, e)

\* ------------------------------------------------------------------------
\* setup-github-token.sh
\* ------------------------------------------------------------------------
UserLevelFlags == {"--user-level", "-u"}
VerifyFlags == {"--verify", "-v"}
TokenFlags == {"--token", "-t"}

\* the words a command line is made of, and the command lines
Words == {"--user-level", "-u", "--verify", "--token", "ghp_new"}
ArgLists == UNION { [1..n -> Words] : n \in 0..MaxArgs }

\* lines of the shell configuration file: an export of GITHUB_TOKEN, a line
\* that only mentions GITHUB_TOKEN, any other line
ExportLine(v) == [kind |-> "export", value |-> v]
MentionLine == [kind |-> "mention", value |-> ""]
OtherLine == [kind |-> "other", value |-> ""]
Configs == { <<>>, <<ExportLine("ghp_old")>>, <<MentionLine>>,
             <<OtherLine, ExportLine("ghp_old")>> }

\* grep -q "GITHUB_TOKEN"
Mentions(c) == \E i \in DOMAIN c : c[i].kind \in {"export", "mention"}
\* sed -i '/export GITHUB_TOKEN=/d'
NotExport(l) == l.kind # "export"
DeleteExports(c) == SelectSeq(c, NotExport)

\* lines 5-7: TOKEN="${1:-}", USER_LEVEL=false, VERIFY=false.  The script
\* is run by bash, so $BASH_VERSION is set; $ZSH_VERSION is set only when
\* the environment exports it.
InitTokenScript ==
    /\ argv \in ArgLists
    /\ rest = argv
    /\ TOKEN = IF argv = <<>> THEN "" ELSE argv[1]
    /\ USER_LEVEL = FALSE
    /\ VERIFY = FALSE
    /\ envToken \in {"", "ghp_env"}
    /\ shell \in {"zsh", "bash"}
    /\ config \in Configs
    /\ fileOps = <<>>
    /\ requests = <<>>
    /\ tpc = "parse"
    /\ exitStatus = Null

\* lines 10-28, one iteration of the while loop (or its end, followed by
\* the test of line 30).  shift 2 with a single word left fails and shifts
\* nothing.
ParseArg ==
    /\ tpc = "parse"
    /\ IF rest = <<>>
       THEN /\ tpc' = IF VERIFY THEN "verify" ELSE "checkToken"
            /\ UNCHANGED <<rest, TOKEN, USER_LEVEL, VERIFY>>
       ELSE /\ tpc' = "parse"
            /\ IF Head(rest) \in UserLevelFlags
               THEN /\ USER_LEVEL' = TRUE
                    /\ rest' = Tail(rest)
                    /\ UNCHANGED <<TOKEN, VERIFY>>
               ELSE IF Head(rest) \in VerifyFlags
               THEN /\ VERIFY' = TRUE
                    /\ rest' = Tail(rest)
                    /\ UNCHANGED <<TOKEN, USER_LEVEL>>
               ELSE IF Head(rest) \in TokenFlags
               THEN /\ TOKEN' = IF Len(rest) >= 2 THEN rest[2] ELSE ""
                    /\ rest' = IF Len(rest) >= 2
                               THEN SubSeq(rest, 3, Len(rest)) ELSE rest
                    /\ UNCHANGED <<USER_LEVEL, VERIFY>>
               ELSE /\ rest' = Tail(rest)
                    /\ UNCHANGED <<TOKEN, USER_LEVEL, VERIFY>>
    /\ UNCHANGED <<argv, envToken, shell, config, fileOps, requests, exitStatus>>
    /\ UNCHANGED <<appVars, bootVars, chatVars, svcVars>>

\* lines 30-54: --verify checks $GITHUB_TOKEN of the environment
VerifyMode(ok) ==
    /\ tpc = "verify"
    /\ tpc' = "exited"
    /\ IF envToken = ""
       THEN /\ ok
            /\ exitStatus' = Some(1)
            /\ UNCHANGED requests
       ELSE /\ requests' = Append(requests, envToken)
            /\ exitStatus' = IF ok THEN Some(0) ELSE Some(1)
    /\ UNCHANGED <<argv, rest, TOKEN, USER_LEVEL, VERIFY, envToken, shell,
                   config, fileOps>>
    /\ UNCHANGED <<appVars, bootVars, chatVars, svcVars>>

\* lines 56-61: the missing-token check
CheckToken ==
    /\ tpc = "checkToken"
    /\ IF TOKEN = ""
       THEN tpc' = "exited" /\ exitStatus' = Some(1)
       ELSE tpc' = "persist" /\ UNCHANGED exitStatus
    /\ UNCHANGED <<argv, rest, TOKEN, USER_LEVEL, VERIFY, envToken, shell,
                   config, fileOps, requests>>
    /\ UNCHANGED <<appVars, bootVars, chatVars, svcVars>>

\* lines 65-96: write the export line to the shell configuration file
\* (--user-level) or export the variable in the script's own process
Persist ==
    /\ tpc = "persist"
    /\ tpc' = "verifyToken"
    /\ IF USER_LEVEL /\ shell \in {"zsh", "bash"}
       THEN IF Mentions(config)
            THEN /\ config' = Append(DeleteExports(config), ExportLine(TOKEN))
                 /\ fileOps' = fileOps \o <<"delete exports", "append export">>
            ELSE /\ config' = Append(config, ExportLine(TOKEN))
                 /\ fileOps' = Append(fileOps, "append export")
       ELSE UNCHANGED <<config, fileOps>>
    /\ UNCHANGED <<argv, rest, TOKEN, USER_LEVEL, VERIFY, envToken, shell,
                   requests, exitStatus>>
    /\ UNCHANGED <<appVars, bootVars, chatVars, svcVars>>

\* lines 98-119: the verification request, the usage text, the end
VerifyToken(ok) ==
    /\ tpc = "verifyToken"
    /\ tpc' = "exited"
    /\ requests' = Append(requests, TOKEN)
    /\ exitStatus' = Some(0)
    /\ UNCHANGED <<argv, rest, TOKEN, USER_LEVEL, VERIFY, envToken, shell,
                   config, fileOps>>
    /\ UNCHANGED <<appVars, bootVars, chatVars, svcVars>>

NextTokenScript ==
    \/ ParseArg
    \/ \E ok \in BOOLEAN : VerifyMode(ok)
    \/ CheckToken
    \/ Persist
    \/ \E ok \in BOOLEAN : VerifyToken(ok)

\* ------------------------------------------------------------------------
\* Specifications
\* ------------------------------------------------------------------------
\* a bootstrap run that has not been started
BootIdle ==
    /\ platform = "linux"
    /\ version = [numeric |-> TRUE, major |-> 22, minor |-> 0, patch |-> 0]
    /\ files = <<>>
    /\ registry = npmRegistry
    /\ bpc = "idle"
    /\ localInstaller = Null
    /\ trace = <<>>
    /\ exitCode = Null

\* the application before it is mounted
AppIdle ==
    /\ isTauri = FALSE
    /\ isReady = Null
    /\ envStatus = Null
    /\ updateInfo = Null
    /\ showUpdateBanner = FALSE
    /\ updating = FALSE
    /\ updateResult = Null
    /\ checkTimer = "none"
    /\ checkPc = "idle"
    /\ mountEnvPc = "idle"
    /\ att = [a \in Attempts |-> NoAttempt]
    /\ timers = {}
    /\ calls = [check |-> 0, backup |-> 0, apply |-> 0, env |-> 0]
    /\ clicks = 0
    /\ appLog = {}
    /\ lastEvent = "none"

\* the useService hook before it is mounted
ServiceIdle ==
    /\ serviceStatus = Null
    /\ hookPc = "none"
    /\ intervalSet = FALSE
    /\ fetches = <<>>
    /\ ops = <<>>
    /\ ticks = 0
    /\ svcEvent = Event("none", 0, Null)

\* the script not started
TokenIdle ==
    /\ argv = <<>>
    /\ rest = <<>>
    /\ TOKEN = ""
    /\ USER_LEVEL = FALSE
    /\ VERIFY = FALSE
    /\ envToken = ""
    /\ shell = "bash"
    /\ config = <<>>
    /\ fileOps = <<>>
    /\ requests = <<>>
    /\ tpc = "idle"
    /\ exitStatus = Null

\* the Chat component before it is mounted; nothing else is running
ChatIdle ==
    /\ ServiceIdle
    /\ TokenIdle
    /\ input = <<>>
    /\ messages = <<>>
    /\ loading = FALSE
    /\ outstanding = 0
    /\ sends = 0
    /\ chatEvent = "none"

Init == InitApp /\ BootIdle /\ ChatIdle
Next == NextApp
Spec == Init /\ [][Next]_vars

\* every issued host command is eventually answered and every pending
\* timer eventually fires; the user is under no obligation to act
Fairness ==
    /\ WF_vars(\E s \in EnvironmentStatuses : MountEnvResolves(s))
    /\ WF_vars(CheckTimerFires)
    /\ WF_vars(\E info \in UpdateInfos : CheckResolves(info))
    /\ \A a \in Attempts :
          /\ WF_vars(BackupResolves(a)
                       \/ \E e \in RejectValues : BackupRejects(a, e))
          /\ WF_vars(\E r \in UpdateOpenclawResults : ApplyResolves(a, r)
                       \/ \E e \in RejectValues : ApplyRejects(a, e))
          /\ WF_vars(EnvRejects(a)
                       \/ \E s \in EnvironmentStatuses : EnvResolves(a, s))
          /\ WF_vars(CloseTimerFires(a))
FairSpec == Spec /\ Fairness

InitLnode == AppIdle /\ InitBoot /\ ChatIdle
SpecBoot == InitLnode /\ [][NextBoot]_vars

InitChatOnly == AppIdle /\ BootIdle /\ InitChat /\ ServiceIdle /\ TokenIdle
SpecChat == InitChatOnly /\ [][NextChat]_vars

ChatOnlyIdle ==
    /\ input = <<>>
    /\ messages = <<>>
    /\ loading = FALSE
    /\ outstanding = 0
    /\ sends = 0
    /\ chatEvent = "none"

InitServiceOnly ==
    AppIdle /\ BootIdle /\ ChatOnlyIdle /\ InitService /\ TokenIdle
SpecService == InitServiceOnly /\ [][NextService]_vars

InitTokenOnly ==
    AppIdle /\ BootIdle /\ ChatOnlyIdle /\ ServiceIdle /\ InitTokenScript
SpecToken == InitTokenOnly /\ [][NextTokenScript]_vars

\* configureNpmMirror invoked repeatedly with nothing in between
MirrorCalls == Cardinality({i \in DOMAIN trace : trace[i] = MirrorStart})

InitMirror ==
    /\ AppIdle
    /\ ChatIdle
    /\ platform \in Platforms
    /\ version = [numeric |-> TRUE, major |-> 22, minor |-> 0, patch |-> 0]
    /\ files = <<>>
    /\ registry \in Registries
    /\ bpc = "repeat configureNpmMirror"
    /\ localInstaller = Null
    /\ trace = <<>>
    /\ exitCode = Null

RepeatMirror(readOk, writeOk) ==
    /\ bpc = "repeat configureNpmMirror"
    /\ MirrorCalls < MaxMirrorCalls
    /\ configureNpmMirror(readOk, writeOk)
    /\ UNCHANGED <<platform, version, files, bpc, localInstaller, exitCode>>
    /\ UNCHANGED <<appVars, chatVars, svcVars, tokenVars>>

NextMirror == \E readOk, writeOk \in BOOLEAN : RepeatMirror(readOk, writeOk)
SpecMirror == InitMirror /\ [][NextMirror]_vars

\* ------------------------------------------------------------------------
\* Properties of the update orchestrator (Spec, FairSpec)
\* ------------------------------------------------------------------------
Started == {a \in Attempts : att[a].pc # "unused"}
BackedUp == {a \in Attempts : att[a].backupOk}

\* C1: in every attempt the apply call (update_openclaw) is issued only
\* after the backup call of the same attempt has completed successfully;
\* over any sequence of attempts there are never more apply calls than
\* successful backups, and an attempt whose backup failed issued no apply.
C1_BackupBeforeApply ==
    /\ \A a \in Attempts :
          /\ att[a].applyIssued => att[a].backupOk
          /\ att[a].pc \in {"apply", "env"} => att[a].backupOk
          /\ att[a].outcome \in {"applyThrew", "applyFalse", "success"}
                => att[a].backupOk
          /\ att[a].backupErr # Null => ~att[a].applyIssued
    /\ calls.apply <= Cardinality(BackedUp)
    /\ calls.apply <= calls.backup

\* an apply was issued in one attempt after another attempt's backup failed
C1_Witness ==
    \E a, b \in Attempts :
        /\ att[a].outcome = "backupFailed"
        /\ att[b].applyIssued /\ att[b].backupOk

\* C2: when backup_user_config fails, the attempt ends with
\* updateResult = {success: false, error: <text of the backup error>},
\* update_openclaw is not invoked in that attempt, and updating is false.
C2_BackupFailureEndsAttempt ==
    [][\A a \in Attempts :
          (att[a].pc = "backup" /\ att'[a].backupErr # Null) =>
             /\ att'[a].pc = "ended"
             /\ ~att'[a].applyIssued
             /\ calls'.apply = calls.apply
             /\ updateResult' # Null
             /\ updateResult'[1].success = FALSE
             /\ updateResult'[1].error = StringOf(att'[a].backupErr[1])
             /\ updateResult'[1].error # Absent
             /\ updating' = FALSE]_vars

\* a backup has just failed with an Error object
C2_Witness ==
    /\ lastEvent = "backupRejects"
    /\ \E a \in Attempts :
          /\ att[a].outcome = "backupFailed"
          /\ att[a].backupErr[1].kind = "Error"
          /\ updateResult = Some([success |-> FALSE,
                                  message |-> "update error",
                                  error |-> "Error: permission denied"])

\* C3: at most one attempt is in flight at a time (never two backup calls
\* or two apply calls outstanding together), and an apply trigger received
\* while an attempt is in flight changes nothing.
C3_OneAttemptInFlight ==
    /\ [](Cardinality({a \in Attempts : InFlight(a)}) <= 1)
    /\ []((\E a \in Attempts : InFlight(a)) <=> updating)
    /\ [][lastEvent' = "clickUpdateDisabled" =>
             /\ updating /\ \E a \in Attempts : InFlight(a)
             /\ UNCHANGED <<isReady, envStatus, updateInfo,
                            showUpdateBanner, updating, updateResult, att,
                            timers, calls, clicks>>]_vars

\* the trigger was received, and rejected, while update_openclaw was
\* outstanding
C3_Witness ==
    /\ lastEvent = "clickUpdateDisabled"
    /\ \E a \in Attempts : att[a].pc = "apply"

\* C4: after an attempt has ended with success no further apply is issued
\* until a new update check has been performed.
C4_NoReapplyWithoutCheck ==
    \A a, b \in Attempts :
        (a < b /\ att[a].outcome = "success" /\ att[b].applyIssued)
            => att[b].epoch > att[a].epoch

FailureShown ==
    /\ showUpdateBanner
    /\ updateResult # Null
    /\ ~updateResult[1].success

\* C5: once an attempt has ended in failure the failure stays visible
\* (banner shown, updateResult holding the failure) until the user
\* dismisses it or starts a new attempt; no timer clears it, and no attempt
\* starts without a click.
C5_FailurePersists ==
    /\ [][(FailureShown /\ ~FailureShown') =>
             lastEvent' \in {"clickDecline", "clickUpdate"}]_vars
    /\ [][calls'.backup # calls.backup => lastEvent' = "clickUpdate"]_vars

\* C6: when update_openclaw returns success, then after the awaited
\* environment check and the display interval the banner is hidden and
\* updateResult is cleared by the attempt's own timer, with no user action.
C6_SuccessReturnsToIdle ==
    \A a \in Attempts :
        (att[a].pc = "env") ~>
            (/\ att[a].outcome = "success"
             /\ a \notin timers
             /\ lastEvent = "closeTimerFires"
             /\ ~showUpdateBanner
             /\ updateResult = Null)

\* the close timer of a successful attempt has just fired
C6_Witness ==
    /\ lastEvent = "closeTimerFires"
    /\ \E a \in Attempts : att[a].outcome = "success" /\ a \notin timers
    /\ ~showUpdateBanner
    /\ updateResult = Null
    /\ clicks = 1

\* C7: backup_user_config and update_openclaw are issued only in response
\* to a user's click on the update button; when the check reports an
\* available update and the user declines, nothing is issued and the
\* banner is hidden.
C7_NoSilentApply ==
    /\ [](/\ calls.backup <= clicks
          /\ calls.apply <= clicks
          /\ Cardinality(Started) <= clicks
          /\ (clicks = 0 => ~updating /\ updateResult = Null))
    /\ [][calls'.backup # calls.backup => lastEvent' = "clickUpdate"]_vars
    /\ [][lastEvent' = "clickDecline" =>
             /\ ~showUpdateBanner'
             /\ calls' = calls /\ att' = att /\ ~updating']_vars

\* an update was available and the user declined it
C7_Witness ==
    /\ lastEvent = "clickDecline"
    /\ updateInfo # Null /\ updateInfo[1].update_available
    /\ clicks = 0
    /\ calls.backup = 0 /\ calls.apply = 0
    /\ ~showUpdateBanner

LocalCommands == {"msiexec", "installer"}
PackageManagers == {"winget", "brew"}
ManualLines == {"manual: https://nodejs.org/", "manual: check Homebrew",
                "manual: use nvm"}

IsCmdOf(i, cs) == trace[i].kind = "cmd" /\ trace[i].what \in cs
IsManual(i) == trace[i].kind # "cmd" /\ trace[i].what \in ManualLines

\* C9: when the local installer invocation succeeds, no package-manager
\* command is invoked in that run, and nothing else of the chain follows.
C9_LocalSuccessStopsChain ==
    \A i \in DOMAIN trace :
        (IsCmdOf(i, LocalCommands) /\ trace[i].ok) =>
            \A j \in DOMAIN trace :
                /\ ~IsCmdOf(j, PackageManagers)
                /\ ~IsManual(j)
                /\ (IsCmdOf(j, LocalCommands) => j = i)

\* the run has ended after a successful local install
C9_Witness ==
    /\ bpc = "exited"
    /\ \E i \in DOMAIN trace : IsCmdOf(i, LocalCommands) /\ trace[i].ok

LocalTriedOrUnavailableBefore(i) ==
    \E j \in DOMAIN trace :
        /\ j < i
        /\ \/ IsCmdOf(j, LocalCommands)
           \/ trace[j] = Log("info", "no local")

PackageManagerFailedBefore(i) ==
    \E j \in DOMAIN trace :
        j < i /\ IsCmdOf(j, PackageManagers) /\ ~trace[j].ok

AtMostOnce ==
    /\ Cardinality({i \in DOMAIN trace : IsCmdOf(i, LocalCommands)}) <= 1
    /\ Cardinality({i \in DOMAIN trace : IsCmdOf(i, PackageManagers)}) <= 1
    /\ Cardinality({i \in DOMAIN trace : IsManual(i)}) <= 1

\* C10 as stated: in every run the package manager is never invoked before
\* the local attempt was tried or found unavailable, the manual instruction
\* is never emitted before the package-manager attempt has failed, and each
\* candidate is attempted at most once.
C10_FixedOrderEveryRun ==
    /\ \A i \in DOMAIN trace :
          /\ IsCmdOf(i, PackageManagers) => LocalTriedOrUnavailableBefore(i)
          /\ IsManual(i) => PackageManagerFailedBefore(i)
    /\ AtMostOnce

\* C10 amended: the order holds on Windows and macOS; on any other
\* platform the manual message is emitted once the lookup found nothing,
\* with no installer and no package manager invoked.
C10_FixedOrderSupported ==
    /\ \A i \in DOMAIN trace :
          /\ IsCmdOf(i, PackageManagers) => LocalTriedOrUnavailableBefore(i)
          /\ IsManual(i) =>
                IF platform \in {"win32", "darwin"}
                THEN PackageManagerFailedBefore(i)
                ELSE /\ LocalTriedOrUnavailableBefore(i)
                     /\ \A j \in DOMAIN trace :
                           ~IsCmdOf(j, LocalCommands \cup PackageManagers)
    /\ AtMostOnce

\* the whole chain was walked: local failed, package manager failed, manual
C10_Witness ==
    /\ \E i, j, k \in DOMAIN trace :
          /\ i < j /\ j < k
          /\ IsCmdOf(i, LocalCommands) /\ ~trace[i].ok
          /\ IsCmdOf(j, PackageManagers) /\ ~trace[j].ok
          /\ IsManual(k)

\* ------------------------------------------------------------------------
\* Properties of the bootstrap run (SpecBoot)
\* ------------------------------------------------------------------------
\* installLatestNode has been entered
ChainEntered == Logged("checking install")

\* main has passed the version test
GatePassed == bpc # "main"

MinTuple == <<minNodeVersion, 0, 0>>
VersionTuple(v) == <<v.major, v.minor, v.patch>>

\* a >= b for triples, lexicographically
LexGE(a, b) ==
    \/ a[1] > b[1]
    \/ a[1] = b[1] /\ a[2] > b[2]
    \/ a[1] = b[1] /\ a[2] = b[2] /\ a[3] >= b[3]

\* C12: for every installed version (major, minor, patch) the gate reports
\* the runtime as adequate exactly when the installed tuple is
\* lexicographically >= the minimum tuple 22.0.0.
C12_GateIsTupleComparison ==
    (version.numeric /\ GatePassed) =>
        /\ Logged("version ok") <=> LexGE(VersionTuple(version), MinTuple)
        /\ Logged("version too low")
               <=> ~LexGE(VersionTuple(version), MinTuple)
        /\ ~BelowMinimum(version) <=> LexGE(VersionTuple(version), MinTuple)

\* the gate has accepted exactly the minimum, 22.0.0
C12_Witness ==
    /\ GatePassed
    /\ version = [numeric |-> TRUE, major |-> 22, minor |-> 0, patch |-> 0]
    /\ Logged("version ok")

\* does the installed version satisfy the minimum; a version that cannot
\* be parsed counts as no runtime at all
Satisfies(v) == v.numeric /\ LexGE(VersionTuple(v), MinTuple)

C14_ChainNeverBlocksLaterStages ==
    (ChainEntered /\ bpc = "exited") =>
        /\ Ran("npm config get")
        /\ platform = "win32" => Ran("python --version")

\* the index right after a failed command holds an error or warning line
FailureLogged(i) ==
    /\ i + 1 \in DOMAIN trace
    /\ trace[i + 1].kind \in {"error", "warn"}

CallOf(i) ==
    Cardinality({j \in DOMAIN trace : j <= i /\ trace[j] = MirrorStart})

WritesIn(k) ==
    Cardinality({i \in DOMAIN trace :
                    IsCmdOf(i, {"npm config set"}) /\ CallOf(i) = k})

FailedIn(k) ==
    \E i \in DOMAIN trace :
        trace[i].kind = "cmd" /\ ~trace[i].ok /\ CallOf(i) = k

RegistryCommands == {"npm config get", "npm config set"}
BuildToolCommands == {"python --version", "npm install -g node-gyp"}

\* C17: a failed read or write of the registry setting is logged and does
\* not abort the run: the later stages run and the exit status is not
\* non-zero.
C17_MirrorFailureIsSoft ==
    \A i \in DOMAIN trace :
        (IsCmdOf(i, RegistryCommands) /\ ~trace[i].ok) =>
            /\ i + 1 \in DOMAIN trace
            /\ trace[i + 1] = Log("error", "mirror failed")
            /\ exitCode # Some(1)
            /\ bpc \in {AfterMirror, "finish", "exited"}
            /\ bpc \in {"finish", "exited"} =>
                  (platform = "win32" <=> Ran("python --version"))
            /\ bpc = "exited" =>
                  /\ exitCode = Some(0)
                  /\ trace[Len(trace)] = Log("success", "run complete")

\* a Windows run has completed after a failed registry write
C17_Witness ==
    /\ bpc = "exited"
    /\ platform = "win32"
    /\ \E i \in DOMAIN trace :
          IsCmdOf(i, {"npm config set"}) /\ ~trace[i].ok
    /\ Ran("python --version")

\* the install chain has been left
ChainLeft ==
    /\ ChainEntered
    /\ bpc \notin {"findLocalInstaller", "localInstall", "onlineInstall"}

\* C18: on a platform that is neither Windows nor macOS the install chain
\* invokes no installer and no package manager, emits the generic manual
\* message and returns normally.
C18_UnsupportedPlatformGoesManual ==
    (platform \notin {"win32", "darwin"} /\ ChainEntered) =>
        /\ \A i \in DOMAIN trace :
              ~IsCmdOf(i, LocalCommands \cup PackageManagers)
        /\ ChainLeft =>
              /\ Logged("manual: use nvm")
              /\ exitCode # Some(1)

\* C19: checkAndInstallBuildTools runs in a run if and only if the platform
\* is Windows; elsewhere no build-tool command is executed.
C19_BuildToolsIffWindows ==
    /\ platform # "win32" =>
          \A i \in DOMAIN trace : ~IsCmdOf(i, BuildToolCommands)
    /\ bpc = "exited" =>
          (Logged("checking build tools") <=> platform = "win32")

\* C20: when a local installer is found and its invocation fails, the
\* error is logged and the chain continues with the package manager of the
\* same platform; the run is not terminated.
C20_LocalFailureFallsBack ==
    \A i \in DOMAIN trace :
        (IsCmdOf(i, LocalCommands) /\ ~trace[i].ok) =>
            /\ localInstaller # Null
            /\ i + 1 \in DOMAIN trace
            /\ trace[i + 1] = Log("error", "local failed")
            /\ exitCode # Some(1)
            /\ \/ bpc = "onlineInstall" /\ i + 1 = Len(trace)
               \/ /\ i + 3 \in DOMAIN trace
                  /\ IsCmdOf(i + 3, {PackageManager})
                  /\ trace[i].what = LocalCommand

\* the package manager was run after the local installer had failed
C20_Witness ==
    \E i \in DOMAIN trace :
        /\ IsCmdOf(i, LocalCommands) /\ ~trace[i].ok
        /\ i + 3 \in DOMAIN trace
        /\ IsCmdOf(i + 3, PackageManagers)
        /\ bpc = "exited"

\* the manual instructions that contain a download URL (line 199)
LinesWithDownloadUrl == {"manual: https://nodejs.org/"}

\* C21: when the package-manager attempt fails, no further automated
\* install action is performed, a manual instruction containing a download
\* URL is emitted, and the chain returns normally.
C21_PackageManagerFailureGoesManual ==
    \A i \in DOMAIN trace :
        (IsCmdOf(i, PackageManagers) /\ ~trace[i].ok) =>
            /\ \A j \in DOMAIN trace :
                  (j > i) => ~IsCmdOf(j, LocalCommands \cup PackageManagers)
            /\ i + 1 \in DOMAIN trace
            /\ trace[i + 1].kind # "cmd"
            /\ trace[i + 1].what \in LinesWithDownloadUrl
            /\ ChainLeft
            /\ exitCode # Some(1)

\* the stage of main a trace entry belongs to
GateEntries == {"version too low", "version ok"}
ChainEntries ==
    {"checking install", "readdirSync", "local found", "no local",
     "local installed", "local failed", "suggest package manager",
     "package manager ran"}
        \cup LocalCommands \cup PackageManagers \cup ManualLines
MirrorEntries ==
    {"configuring mirror", "setting registry", "mirror set", "mirror failed",
     "mirror already set"} \cup RegistryCommands
BuildToolEntries ==
    {"checking build tools", "python present", "python missing",
     "manual: winget install Python", "build tools ok", "build tools failed"}
        \cup BuildToolCommands

StageOf(i) ==
    IF trace[i].what \in GateEntries THEN 1
    ELSE IF trace[i].what \in ChainEntries THEN 2
    ELSE IF trace[i].what \in MirrorEntries THEN 3
    ELSE IF trace[i].what \in BuildToolEntries THEN 4
    ELSE 5

StageRan(n) == \E i \in DOMAIN trace : StageOf(i) = n

\* C22: the stages run in the order version gate, install chain (only if
\* needed), mirror configuration, build-tool check; everything a stage does
\* precedes everything the next stage does, and no stage runs twice.
C22_StagesInOrder ==
    /\ \A i \in DOMAIN trace :
          i + 1 \in DOMAIN trace => StageOf(i) <= StageOf(i + 1)
    /\ StageRan(2) => BelowMinimum(version)
    /\ Cardinality({i \in DOMAIN trace : StageOf(i) = 1}) <= 1
    /\ TimesLogged("checking install") <= 1
    /\ MirrorCalls <= 1
    /\ TimesLogged("checking build tools") <= 1
    /\ bpc = "configureNpmMirror" => ~StageRan(3)
    /\ bpc = "checkAndInstallBuildTools" => StageRan(3) /\ ~StageRan(4)

\* a run in which all four stages ran has completed
C22_Witness ==
    /\ bpc = "exited"
    /\ exitCode = Some(0)
    /\ \A n \in 1..4 : StageRan(n)
    /\ Ran("npm config set")
    /\ Ran("npm install -g node-gyp")

\* ------------------------------------------------------------------------
\* Properties of configureNpmMirror, one invocation (SpecMirror)
\* ------------------------------------------------------------------------
\* what the invocation made in this step appended to the trace
Appended == SubSeq(trace', Len(trace) + 1, Len(trace'))
Invoked == MirrorCalls' = MirrorCalls + 1
Has(t, e) == \E i \in DOMAIN t : t[i] = e
WriteExecuted ==
    \/ Has(Appended, Cmd("npm config set", TRUE))
    \/ Has(Appended, Cmd("npm config set", FALSE))

C24_BuildToolsStage ==
    Logged("checking build tools") =>
        /\ bpc \in {"finish", "exited"}
        /\ TimesRan("python --version") = 1
        /\ RanOk("python --version") =>
              \A i \in DOMAIN trace :
                  trace[i].kind = "cmd" /\ StageOf(i) = 4 =>
                      trace[i].what = "python --version"
        /\ ~RanOk("python --version") =>
              /\ Logged("manual: winget install Python")
              /\ TimesRan("npm install -g node-gyp") = 1
        /\ \A i \in DOMAIN trace :
              trace[i] = Cmd("npm install -g node-gyp", FALSE) =>
                  /\ i + 1 \in DOMAIN trace
                  /\ trace[i + 1] = Log("error", "build tools failed")
                  /\ exitCode # Some(1)
                  /\ bpc = "exited" => exitCode = Some(0)

\* the run has completed after a failed node-gyp install
C24_Witness ==
    /\ bpc = "exited"
    /\ Has(trace, Cmd("python --version", FALSE))
    /\ Has(trace, Cmd("npm install -g node-gyp", FALSE))

\* the installer pattern of a platform
InstallerPattern(p) ==
    IF p = "win32" THEN Msis ELSE IF p = "darwin" THEN Pkgs ELSE {}

LookupDone == Has(trace, Fs("readdirSync", TRUE))

\* positions of the directory listing that hold a file of the set M
PositionsOf(M) == {i \in DOMAIN files : files[i] \in M}
FirstOf(M) == CHOOSE i \in PositionsOf(M) : \A j \in PositionsOf(M) : i <= j

\* C26: the lookup returns a name only on Windows or macOS and only a file
\* of the directory matching the platform's pattern; on Windows an x64
\* node-v package is preferred, otherwise the first match in directory
\* order is returned; with no match the result is none.
C26_LookupResult ==
    LookupDone =>
        /\ localInstaller # Null =>
              /\ platform \in {"win32", "darwin"}
              /\ localInstaller[1] \in InstallerPattern(platform)
              /\ Has(files, localInstaller[1])
        /\ PositionsOf(InstallerPattern(platform)) = {} <=>
              localInstaller = Null
        /\ platform = "win32" /\ PositionsOf(X64Msis) # {} =>
              localInstaller = Some(files[FirstOf(X64Msis)])
        /\ /\ PositionsOf(InstallerPattern(platform)) # {}
           /\ ~(platform = "win32" /\ PositionsOf(X64Msis) # {})
           => localInstaller = Some(files[FirstOf(InstallerPattern(platform))])

\* on Windows the x64 package was returned although another .msi precedes
\* it in the directory
C26_Witness ==
    /\ LookupDone
    /\ platform = "win32"
    /\ Len(files) = 2
    /\ files[1] \in Msis \ X64Msis
    /\ files[2] \in X64Msis
    /\ localInstaller = Some(files[2])

\* ------------------------------------------------------------------------
\* Properties of the update orchestrator, continued (Spec)
\* ------------------------------------------------------------------------
Ends(a) == InFlight(a) /\ att'[a].pc = "ended"

C27_BannerShownWhileUpdating ==
    /\ [](\A a \in Attempts : InFlight(a) => updating)
    /\ [][\A a \in Attempts : Ends(a) => ~updating']_vars
    /\ [][lastEvent' = "clickDecline" => ~updating]_vars
    /\ [](\A a \in Attempts :
             att[a].pc \in {"backup", "apply"} => showUpdateBanner)

\* a call of checkEnvironment returns in this step
EnvCallEnds ==
    \/ mountEnvPc = "awaiting" /\ mountEnvPc' = "done"
    \/ \E a \in Attempts : att[a].pc = "env" /\ att'[a].pc # "env"
    \/ "env: skipped" \in appLog' \ appLog

\* C28: every call of checkEnvironment ends with isReady = true; envStatus
\* is replaced only when check_environment succeeds; once a check has
\* completed the application is never on the initializing screen.
C28_CheckEnvironmentAlwaysReady ==
    /\ [][EnvCallEnds => isReady' = Some(TRUE)]_vars
    /\ [][envStatus' # envStatus =>
             /\ EnvCallEnds
             /\ lastEvent' \in {"mountEnvResolves", "envResolves"}]_vars
    /\ [][lastEvent' \in {"mountEnvRejects", "envRejects"} =>
             EnvCallEnds /\ envStatus' = envStatus]_vars
    /\ []((mountEnvPc = "done" \/ ~isTauri) => isReady = Some(TRUE))
    /\ [][isReady = Some(TRUE) => isReady' = Some(TRUE)]_vars

\* the check made after a successful update failed: the status obtained on
\* mount is kept
C28_Witness ==
    /\ lastEvent = "envRejects"
    /\ isReady = Some(TRUE)
    /\ envStatus # Null

\* ------------------------------------------------------------------------
\* Properties of the chat transcript (SpecChat)
\* ------------------------------------------------------------------------
\* C29: at most one send_agent_message call is outstanding; a send
\* triggered while a send awaits its reply, or with blank input, issues no
\* call and leaves messages, input and loading unchanged.
C29_OneSendOutstanding ==
    /\ [](outstanding <= 1)
    /\ [][sends' # sends =>
             /\ ~loading /\ outstanding = 0 /\ Trim(input) # <<>>
             /\ sends' = sends + 1]_vars
    /\ [][chatEvent' = "sendIgnored" =>
             /\ loading \/ Trim(input) = <<>>
             /\ UNCHANGED <<messages, input, loading, outstanding,
                            sends>>]_vars
    /\ [][(chatEvent' \in {"sendIgnored", "sendAccepted"}
             /\ (loading \/ Trim(input) = <<>>)) =>
                chatEvent' = "sendIgnored"]_vars

\* a send was triggered with text typed while the previous send was still
\* awaiting its reply
C29_Witness ==
    /\ chatEvent = "sendIgnored"
    /\ loading
    /\ outstanding = 1
    /\ Trim(input) # <<>>

Completed == sends - outstanding

\* C30: an accepted send appends one user message and then one assistant
\* message (the reply, or an error message); earlier messages are never
\* removed or reordered; loading is false when the send has ended; the
\* transcript is the welcome message followed by alternating user and
\* assistant messages.
C30_TranscriptAlternates ==
    /\ [](messages[1] = Welcome)
    /\ [](Len(messages) = 1 + 2 * Completed + outstanding)
    /\ [](\A i \in 2..Len(messages) :
             messages[i].role = IF i % 2 = 0 THEN "user" ELSE "assistant")
    /\ [](outstanding = 0 => ~loading)
    /\ [][messages' # messages =>
             /\ Len(messages') = Len(messages) + 1
             /\ SubSeq(messages', 1, Len(messages)) = messages]_vars
    /\ [][sends' # sends =>
             messages' = Append(messages, Message("user", input))]_vars
    /\ [][outstanding' < outstanding =>
             /\ ~loading'
             /\ \/ \E r \in Replies :
                      messages' = Append(messages, Message("assistant", r))
                \/ \E e \in RejectValues :
                      messages' = Append(messages,
                                         Message("assistant",
                                                 ErrorContent(e)))]_vars

\* two sends have completed, the first with an error and the second with a
\* reply
C30_Witness ==
    /\ Len(messages) = 5
    /\ outstanding = 0
    /\ ~loading
    /\ messages[3].content \notin Replies
    /\ messages[5].content \in Replies

\* ------------------------------------------------------------------------
\* Properties of the useService hook (SpecService)
\* ------------------------------------------------------------------------
FetchFails(i) == fetches[i].pc = "awaiting" /\ fetches'[i].pc = "failed"
FetchSucceeds(i) == fetches[i].pc = "awaiting" /\ fetches'[i].pc = "done"

\* C31: a failed status fetch leaves serviceStatus unchanged and raises
\* nothing to its caller; serviceStatus is replaced only by the result of a
\* successful getServiceStatus call.
C31_FailedFetchKeepsStatus ==
    /\ [][\A i \in DOMAIN fetches :
             FetchFails(i) =>
                /\ serviceStatus' = serviceStatus
                /\ \A k \in DOMAIN ops : ops'[k].pc = "rejected" =>
                                            ops[k].pc = "rejected"
                /\ fetches[i].origin = "op" =>
                      ops'[fetches[i].op].pc = "resolved"]_vars
    /\ [][serviceStatus' # serviceStatus =>
             /\ svcEvent'.name = "fetchResolves"
             /\ FetchSucceeds(svcEvent'.of)
             /\ serviceStatus' = svcEvent'.value]_vars

\* a status fetch has just failed while a status was stored
C31_Witness ==
    /\ svcEvent.name = "fetchRejects"
    /\ serviceStatus # Null
    /\ fetches[svcEvent.of].pc = "failed"

FetchesOf(k) ==
    {i \in DOMAIN fetches : fetches[i].origin = "op" /\ fetches[i].op = k}

\* C32: when the service call of start, stop or restart succeeds, one
\* status fetch is performed and has completed when the operation resolves
\* to true; when the service call fails the operation ends with the error
\* raised and performs no status fetch.
C32_OperationFetchesOnSuccess ==
    /\ [](\A k \in DOMAIN ops :
             /\ ops[k].kind \in Operations
             /\ ops[k].pc \in {"calling", "rejected"} => FetchesOf(k) = {}
             /\ ops[k].pc \in {"fetching", "resolved"} =>
                   Cardinality(FetchesOf(k)) = 1
             /\ ops[k].pc = "fetching" =>
                   \A i \in FetchesOf(k) : fetches[i].pc = "awaiting"
             /\ ops[k].pc = "resolved" =>
                   \A i \in FetchesOf(k) :
                       fetches[i].pc \in {"done", "failed"})
    /\ [][\A k \in DOMAIN ops :
             (ops[k].pc = "calling" /\ ops'[k].pc = "rejected") =>
                /\ svcEvent' \in {Event("operationRejects", k, Some(e)) :
                                     e \in RejectValues}
                /\ fetches' = fetches]_vars

\* restart() has resolved to true after its status fetch stored a status
C32_Witness ==
    \E k \in DOMAIN ops :
        /\ ops[k].kind = "restart"
        /\ ops[k].pc = "resolved"
        /\ \E i \in FetchesOf(k) : fetches[i].pc = "done"
        /\ serviceStatus # Null

PollFetches == {i \in DOMAIN fetches : fetches[i].origin \in {"mount", "tick"}}
TickFetches == {i \in DOMAIN fetches : fetches[i].origin = "tick"}

\* C33: the polling issues one status request on mount and one per interval
\* tick, and none after the hook has been unmounted.
C33_PollingStopsOnUnmount ==
    /\ [](fetches[1].origin = "mount")
    /\ [](Cardinality(PollFetches \ TickFetches) = 1)
    /\ [](Cardinality(TickFetches) = ticks)
    /\ [](hookPc = "unmounted" => ~intervalSet)
    /\ [][hookPc = "unmounted" =>
             /\ ticks' = ticks
             /\ \A i \in DOMAIN fetches' :
                   fetches'[i].origin \in {"mount", "tick"} =>
                      i \in DOMAIN fetches]_vars

\* the hook was unmounted after a tick; an operation called before the
\* unmount has since issued its own status fetch
C33_Witness ==
    /\ hookPc = "unmounted"
    /\ ticks >= 1
    /\ svcEvent.name = "operationResolves"

\* ------------------------------------------------------------------------
\* Properties of setup-github-token.sh (SpecToken)
\* ------------------------------------------------------------------------
Flags == UserLevelFlags \cup VerifyFlags \cup TokenFlags

\* the command line holds no token value (every word is a flag, and no
\* word follows --token) and does not ask for --verify
NoTokenValue ==
    \A i \in DOMAIN argv :
        /\ argv[i] \in Flags \ VerifyFlags
        /\ argv[i] \in TokenFlags => i = Len(argv)

\* C34: run without a token value (for instance with --user-level alone)
\* the script exits with status 1 and changes nothing: no GITHUB_TOKEN line
\* is written and no verification request is made.
C34_NoTokenNoChange ==
    NoTokenValue =>
        /\ fileOps = <<>>
        /\ requests = <<>>
        /\ tpc = "exited" => exitStatus = Some(1)
====
